---- MODULE Spec2Model ----
(***************************************************************************)
(* Model of src/agent.py: a FastAPI handler that drives a three-node       *)
(* LangGraph pipeline (query_gen -> query_check -> query_execute -> END).  *)
(* query_gen and query_execute each run a prebuilt ReAct agent (an inner   *)
(* agent/tools loop driven by the language model), query_check makes one   *)
(* structured-output call.  The language model and the database are        *)
(* external and nondeterministic: every reply of the model and every       *)
(* outcome of the database is an input chosen with \E.                     *)
(*                                                                         *)
(* Texts are sequences of characters (one-character strings); a            *)
(* multi-letter element such as "Q" or "ans" stands for a run of           *)
(* characters that holds no backtick and no whitespace.                    *)
(***************************************************************************)
EXTENDS Integers, Sequences, FiniteSets, TLC

VARIABLES
    env_api_key,       \* environment: TRUE iff GOOGLE_API_KEY is set after load_dotenv
    env_database_url,  \* environment: TRUE iff DATABASE_URL is set after load_dotenv
    app,               \* the module: "importing", "up" (serving) or "failed"
    list_tables_tool,  \* module level: TRUE iff next(...) found sql_db_list_tables
    get_schema_tool,   \* module level: TRUE iff next(...) found sql_db_schema
    inputs,            \* module level inputs dict: its "messages" list
    pc,                \* per request: position of the handler / graph
    messages,          \* per request: the graph state's "messages" channel
    final_output,      \* per request: local variable of query()
    response,          \* per request: the value query() returned
    status,            \* per request: HTTP status (0 = nothing sent yet)
    agent,             \* per request: state of the running ReAct agent
    llmCalls,          \* ghost: number of language-model invocations
    asked,             \* ghost: the message the request carried
    trace,             \* ghost: the nodes that have returned, in order
    toolLog            \* ghost: the tool invocations, in order

vars == <<env_api_key, env_database_url, app, list_tables_tool, get_schema_tool, inputs, pc, messages,
          final_output, response, status, agent, llmCalls, asked, trace,
          toolLog>>

----------------------------------------------------------------------------
(* Bounds *)

\* Tool rounds explored inside one ReAct agent run.  The source passes no
\* step limit to create_react_agent or to invoke; the model asks for no
\* further tool once a run has made MaxRounds tool calls.
MaxRounds == 2
\* Number of pieces concatenated to build an argument of db_exec_tool.
MaxPieces == 4

Requests == {1, 2}
MainRequests == {1}
Digit == <<"1", "2">>

----------------------------------------------------------------------------
(* Texts *)

NoResponse == <<"<none>">>
\* Tick stands for the backtick character.
Tick == "tick"
Fence == <<Tick, Tick, Tick>>
FenceSql == <<Tick, Tick, Tick, "s", "q", "l">>

PlainSql == <<"Q">>
FencedSql == FenceSql \o <<"\n", "Q", " ", "\n">> \o Fence
OtherSql == <<"Q", "2">>
Prose == <<"no", "tables">>

Rows == <<"rows">>
ErrorText == <<"Error:", "e">>
DbOutcomes == {Rows, ErrorText}
\* None stands for Python's None: the structured call gave no QueryChecker.
None == <<"None">>

Answer == <<"ans">>
Advice == <<"failed", "rewrite">>
NoAdvice == <<"failed">>

Questions == {<<"?", "1">>}
GenTexts == {PlainSql, FencedSql, Prose}
VetTexts == {PlainSql, FencedSql, OtherSql}
QueryArgs == {PlainSql, FencedSql, OtherSql}
AnswerTexts == {Answer, Advice, NoAdvice, <<>>, PlainSql}

Last(s) == s[Len(s)]

----------------------------------------------------------------------------
(* Python str operations used by db_exec_tool *)

RECURSIVE replace(_, _)
\* s.replace(pat, ""): leftmost, non-overlapping, one pass.
replace(s, pat) ==
    IF Len(s) < Len(pat) THEN s
    ELSE IF SubSeq(s, 1, Len(pat)) = pat
         THEN replace(SubSeq(s, Len(pat) + 1, Len(s)), pat)
         ELSE <<Head(s)>> \o replace(Tail(s), pat)

\* The characters str.strip() removes are those for which str.isspace() holds.
\* VT is the vertical tab U+000B.
VT == ""
\* FS, GS, RS and US are the separators U+001C, U+001D, U+001E and U+001F.
FS == ""
GS == ""
RS == ""
US == ""
\* NEL is the next line character U+0085 and NBSP the no-break space U+00A0:
\* being outside ASCII, each is stood for by its code point, as Tick stands
\* for the backtick.
NEL == "U+0085"
NBSP == "U+00A0"
\* The Unicode spaces and the line and paragraph separators, by code point.
UnicodeSpaces ==
    {"U+1680", "U+2000", "U+2001", "U+2002", "U+2003", "U+2004", "U+2005",
     "U+2006", "U+2007", "U+2008", "U+2009", "U+200A", "U+2028", "U+2029",
     "U+202F", "U+205F", "U+3000"}
\* Every character str.strip() removes: tab, newline, vertical tab, form feed,
\* carriage return, U+001C to U+001F, space, U+0085, U+00A0 and the Unicode
\* spaces and line and paragraph separators.
Whitespace ==
    {" ", "\t", "\n", "\r", "\f", VT, FS, GS, RS, US, NEL, NBSP} \cup UnicodeSpaces

RECURSIVE lstrip(_)
lstrip(s) == IF s # <<>> /\ Head(s) \in Whitespace THEN lstrip(Tail(s)) ELSE s

RECURSIVE rstrip(_)
rstrip(s) ==
    IF s # <<>> /\ Last(s) \in Whitespace
    THEN rstrip(SubSeq(s, 1, Len(s) - 1))
    ELSE s

strip(s) == rstrip(lstrip(s))

\* Faulty variant: the second replace is missing.
db_exec_query_sqlonly(query) == strip(replace(query, FenceSql))

\* query.replace(FenceSql, "").replace(Fence, "").strip()
db_exec_query(query) == strip(replace(replace(query, FenceSql), Fence))

\* The value db_exec_tool returns for the executor's result text.
db_exec_result(result) == <<"{result:">> \o result \o <<"}">>

----------------------------------------------------------------------------
(* Messages and the graph state *)

HumanMessage(content, name) ==
    [type |-> "human", content |-> content, name |-> name]

\* Faulty variant: the update replaces the channel (no reducer).
add_messages_overwrite(left, right) == right

\* The reducer of MessagesState: messages without an id get a fresh one and
\* are appended after the ones already there.
add_messages(left, right) == left \o right

\* inputs = {"messages": input.message}: the string becomes one human message.
query_inputs(message) == <<HumanMessage(message, "none")>>

\* Faulty variant: every update of the loop is ignored once final_output is set.
stream_item_first(prev, value) ==
    IF prev = <<>> THEN Last(value).content ELSE prev

\* Body of the handler's loop: final_output = value["messages"][-1].content
stream_item(prev, value) == Last(value).content

----------------------------------------------------------------------------
(* The Command each node returns *)

\* Faulty variant: the whole agent transcript tail is returned, not one message.
query_gen_Command_two(content) ==
    [update |-> <<HumanMessage(<<>>, "supervisor"),
                  HumanMessage(content, "supervisor")>>,
     goto |-> "query_check"]

query_gen_Command(content) ==
    [update |-> <<HumanMessage(content, "supervisor")>>,
     goto |-> "query_check"]

\* Faulty variant: the checker's query is cleaned up before it is appended.
query_check_Command_cleaned(content) ==
    [update |-> <<HumanMessage(db_exec_query(content), "supervisor")>>,
     goto |-> "query_execute"]

query_check_Command(content) ==
    [update |-> <<HumanMessage(content, "supervisor")>>,
     goto |-> "query_execute"]

\* Faulty variant: an empty final text sends the request back to generation.
query_execute_Command_retry(content) ==
    [update |-> <<HumanMessage(content, "supervisor")>>,
     goto |-> IF content = <<>> THEN "query_gen" ELSE "END"]

query_execute_Command(content) ==
    [update |-> <<HumanMessage(content, "supervisor")>>,
     goto |-> "END"]

----------------------------------------------------------------------------
(* The prebuilt ReAct agent (create_react_agent(...).invoke(state)) *)

NoCall == [tool |-> "none", args |-> <<>>]
NoAgent == [node |-> "off", rounds |-> 0, last |-> <<>>, call |-> NoCall]

\* A reply of the language model: final text, or a request to call a tool.
Final(text) == [content |-> text, tool |-> "none", args |-> <<>>]
ToolCall(name, args) == [content |-> <<>>, tool |-> name, args |-> args]

\* Faulty variant: both agents get the whole tool list.
granted_tools_all(node) ==
    {"sql_db_list_tables", "sql_db_schema", "db_exec_tool"}

\* tools=[...] handed to create_react_agent by each node.
granted_tools(node) ==
    IF node = "query_gen" THEN {"sql_db_list_tables", "sql_db_schema"}
    ELSE IF node = "query_execute" THEN {"db_exec_tool"}
    ELSE {}

GenReplies ==
    {Final(t) : t \in GenTexts}
        \cup {ToolCall("sql_db_list_tables", <<>>), ToolCall("sql_db_schema", <<"T">>)}
ExecReplies ==
    {Final(t) : t \in AnswerTexts} \cup {ToolCall("db_exec_tool", a) : a \in QueryArgs}
\* The model may name any tool; AgentNode keeps the requests for tools the
\* agent was given.
ToolRequests == {rep \in GenReplies \cup ExecReplies : rep.tool # "none"}
Replies(node) ==
    (IF node = "query_gen" THEN GenReplies ELSE ExecReplies) \cup ToolRequests

\* sql_db_list_tables names the tables (none in an empty database),
\* sql_db_schema describes the tables it was asked about.
TableLists == {<<"T">>, <<>>}
SchemaTexts == {<<"cols">>}
Outcomes(tool) ==
    IF tool = "db_exec_tool" THEN DbOutcomes
    ELSE IF tool = "sql_db_list_tables" THEN TableLists
    ELSE SchemaTexts

\* What a tool call sends to its backend and what it hands back to the agent;
\* out is the backend's answer (db.run_no_throw never raises).
run_tool(call, out) ==
    IF call.tool = "db_exec_tool"
    THEN [sent |-> db_exec_query(call.args), value |-> db_exec_result(out)]
    ELSE [sent |-> call.args, value |-> out]

----------------------------------------------------------------------------
(* Actions *)

\* Faulty variant: the configuration is read lazily, nothing fails at import.
module_init_lazy(lt, gs) ==
    /\ app = "importing"
    /\ app' = "up"
    /\ list_tables_tool' = lt
    /\ get_schema_tool' = gs
    /\ UNCHANGED <<env_api_key, env_database_url, inputs, pc, messages,
                   final_output, response, status, agent, llmCalls, asked,
                   trace, toolLog>>

\* Import of the module: os.environ[...] = api_key raises TypeError when the
\* key is None, SQLDatabase.from_uri(None) raises when the URL is None; else
\* the toolkit is built and next(...) looks the two schema tools up (lt, gs:
\* whether each is found).
module_init(lt, gs) ==
    /\ app = "importing"
    /\ IF ~env_api_key \/ ~env_database_url
       THEN /\ app' = "failed"
            /\ UNCHANGED <<list_tables_tool, get_schema_tool>>
       ELSE /\ app' = "up"
            /\ list_tables_tool' = lt
            /\ get_schema_tool' = gs
    /\ UNCHANGED <<env_api_key, env_database_url, inputs, pc, messages,
                   final_output, response, status, agent, llmCalls, asked,
                   trace, toolLog>>

\* Faulty variant: the handler extends the module-level inputs and streams that.
query_global(r, message) ==
    /\ app = "up"
    /\ pc[r] = "START"
    /\ inputs' = inputs \o query_inputs(message)
    /\ asked' = [asked EXCEPT ![r] = message]
    /\ messages' = [messages EXCEPT ![r] = add_messages(<<>>, inputs')]
    /\ final_output' = [final_output EXCEPT ![r] = <<>>]
    /\ pc' = [pc EXCEPT ![r] = "query_gen"]
    /\ UNCHANGED <<env_api_key, env_database_url, app, list_tables_tool,
                   get_schema_tool, response, status, agent,
                   llmCalls, trace, toolLog>>

\* POST /query: build the local inputs, start graph.stream (START -> query_gen).
query(r, message) ==
    /\ app = "up"
    /\ pc[r] = "START"
    /\ asked' = [asked EXCEPT ![r] = message]
    /\ messages' = [messages EXCEPT ![r] = add_messages(<<>>, query_inputs(message))]
    /\ final_output' = [final_output EXCEPT ![r] = <<>>]
    /\ pc' = [pc EXCEPT ![r] = "query_gen"]
    /\ UNCHANGED <<env_api_key, env_database_url, app, list_tables_tool,
                   get_schema_tool, inputs, response, status,
                   agent, llmCalls, trace, toolLog>>

\* An exception leaves the node, the graph and the handler: HTTP 500.
Raise(r) ==
    /\ pc' = [pc EXCEPT ![r] = "raised"]
    /\ status' = [status EXCEPT ![r] = 500]
    /\ agent' = [agent EXCEPT ![r] = NoAgent]

\* agent.invoke(state): the run starts from a copy of the graph state.
Invoke(r) ==
    agent' = [agent EXCEPT ![r] =
                 [node |-> "agent", rounds |-> 0,
                  last |-> Last(messages[r]).content, call |-> NoCall]]

\* Faulty variant: the check for the two schema tools is missing.
query_gen_enter_nocheck(r) ==
    /\ pc[r] = "query_gen"
    /\ agent[r].node = "off"
    /\ Invoke(r)
    /\ UNCHANGED <<env_api_key, env_database_url, app, list_tables_tool,
                   get_schema_tool, inputs, pc, messages,
                   final_output, response, status, llmCalls, asked, trace,
                   toolLog>>

\* query_gen up to query_agent.invoke: the tool check, then the agent starts.
query_gen_enter(r) ==
    /\ pc[r] = "query_gen"
    /\ agent[r].node = "off"
    /\ IF ~list_tables_tool \/ ~get_schema_tool
       THEN Raise(r)
       ELSE Invoke(r) /\ UNCHANGED <<pc, status>>
    /\ UNCHANGED <<env_api_key, env_database_url, app, list_tables_tool,
                   get_schema_tool, inputs, messages,
                   final_output, response, llmCalls, asked, trace, toolLog>>

\* query_execute up to executing_agent.invoke.
query_execute_enter(r) ==
    /\ pc[r] = "query_execute"
    /\ agent[r].node = "off"
    /\ Invoke(r)
    /\ UNCHANGED <<env_api_key, env_database_url, app, list_tables_tool,
                   get_schema_tool, inputs, pc, messages,
                   final_output, response, status, llmCalls, asked, trace,
                   toolLog>>

\* One superstep of the agent node: the model is called once with reply; a
\* reply without a tool call ends the run, one with a tool call goes to the
\* tools node.
AgentNode(r, reply) ==
    /\ pc[r] \in {"query_gen", "query_execute"}
    /\ agent[r].node = "agent"
    /\ reply.tool \in {"none"} \cup granted_tools(pc[r])
    /\ reply.tool # "none" => agent[r].rounds < MaxRounds
    /\ agent' = [agent EXCEPT ![r] =
                    [node |-> IF reply.tool = "none" THEN "end" ELSE "tools",
                     rounds |-> agent[r].rounds,
                     last |-> reply.content,
                     call |-> [tool |-> reply.tool, args |-> reply.args]]]
    /\ llmCalls' = [llmCalls EXCEPT ![r] = @ + 1]
    /\ UNCHANGED <<env_api_key, env_database_url, app, list_tables_tool,
                   get_schema_tool, inputs, pc, messages,
                   final_output, response, status, asked, trace, toolLog>>

\* One superstep of the tools node: the requested tool runs and its value
\* goes back to the agent node.
ToolsNode(r, out) ==
    /\ pc[r] \in {"query_gen", "query_execute"}
    /\ agent[r].node = "tools"
    /\ out \in Outcomes(agent[r].call.tool)
    /\ LET res == run_tool(agent[r].call, out)
       IN /\ toolLog' = [toolLog EXCEPT ![r] =
                 Append(@, [node |-> pc[r], tool |-> agent[r].call.tool,
                            arg |-> agent[r].call.args, sent |-> res.sent,
                            out |-> out])]
          /\ agent' = [agent EXCEPT ![r] =
                 [node |-> "agent", rounds |-> agent[r].rounds + 1,
                  last |-> res.value, call |-> NoCall]]
    /\ UNCHANGED <<env_api_key, env_database_url, app, list_tables_tool,
                   get_schema_tool, inputs, pc, messages,
                   final_output, response, status, llmCalls, asked, trace>>

\* The graph applies a node's Command and the handler's loop sees the update.
Apply(r, node, cmd) ==
    /\ messages' = [messages EXCEPT ![r] = add_messages(@, cmd.update)]
    /\ final_output' = [final_output EXCEPT ![r] = stream_item(@, cmd.update)]
    /\ pc' = [pc EXCEPT ![r] = cmd.goto]
    /\ trace' = [trace EXCEPT ![r] = Append(@, node)]

\* query_gen after invoke: result["messages"][-1].content goes into the Command.
query_gen_return(r) ==
    /\ pc[r] = "query_gen"
    /\ agent[r].node = "end"
    /\ Apply(r, "query_gen", query_gen_Command(agent[r].last))
    /\ agent' = [agent EXCEPT ![r] = NoAgent]
    /\ UNCHANGED <<env_api_key, env_database_url, app, list_tables_tool,
                   get_schema_tool, inputs, response, status,
                   llmCalls, asked, toolLog>>

\* query_check: one structured-output call; q is the query field of the
\* QueryChecker it returns, or None when it returns none.  response.query is
\* read with no guard, so None raises AttributeError out of the node.
query_check(r, q) ==
    /\ pc[r] = "query_check"
    /\ LET query_text == Last(messages[r]).content
       IN toolLog' = [toolLog EXCEPT ![r] =
              Append(@, [node |-> "query_check", tool |-> "llm",
                         arg |-> query_text, sent |-> query_text, out |-> q])]
    /\ llmCalls' = [llmCalls EXCEPT ![r] = @ + 1]
    /\ IF q = None
       THEN Raise(r) /\ UNCHANGED <<messages, final_output, trace>>
       ELSE /\ Apply(r, "query_check", query_check_Command(q))
            /\ UNCHANGED <<status, agent>>
    /\ UNCHANGED <<env_api_key, env_database_url, app, list_tables_tool,
                   get_schema_tool, inputs, response, asked>>

\* query_execute after invoke.
query_execute_return(r) ==
    /\ pc[r] = "query_execute"
    /\ agent[r].node = "end"
    /\ Apply(r, "query_execute", query_execute_Command(agent[r].last))
    /\ agent' = [agent EXCEPT ![r] = NoAgent]
    /\ UNCHANGED <<env_api_key, env_database_url, app, list_tables_tool,
                   get_schema_tool, inputs, response, status,
                   llmCalls, asked, toolLog>>

\* The stream is exhausted: return {"response": final_output}, HTTP 200.
query_return(r) ==
    /\ pc[r] = "END"
    /\ response' = [response EXCEPT ![r] = final_output[r]]
    /\ status' = [status EXCEPT ![r] = 200]
    /\ pc' = [pc EXCEPT ![r] = "returned"]
    /\ UNCHANGED <<env_api_key, env_database_url, app, list_tables_tool,
                   get_schema_tool, inputs, messages,
                   final_output, agent, llmCalls, asked, trace, toolLog>>

----------------------------------------------------------------------------
(* Specifications *)

\* The module-level inputs of the source file.
ModuleInputs == <<HumanMessage(<<"?", "0">>, "none")>>

InitRequests ==
    /\ inputs = ModuleInputs
    /\ pc = [r \in Requests |-> "START"]
    /\ messages = [r \in Requests |-> <<>>]
    /\ final_output = [r \in Requests |-> <<>>]
    /\ response = [r \in Requests |-> NoResponse]
    /\ status = [r \in Requests |-> 0]
    /\ agent = [r \in Requests |-> NoAgent]
    /\ llmCalls = [r \in Requests |-> 0]
    /\ asked = [r \in Requests |-> <<>>]
    /\ trace = [r \in Requests |-> <<>>]
    /\ toolLog = [r \in Requests |-> <<>>]

Init ==
    /\ env_api_key \in BOOLEAN
    /\ env_database_url \in BOOLEAN
    /\ app = "importing"
    /\ list_tables_tool = FALSE
    /\ get_schema_tool = FALSE
    /\ InitRequests

\* One request, every reply of the model and every database outcome.
Next ==
    \/ \E lt \in BOOLEAN, gs \in BOOLEAN : module_init(lt, gs)
    \/ \E r \in MainRequests :
        \/ \E m \in Questions : query(r, m)
        \/ query_gen_enter(r)
        \/ \E reply \in Replies(pc[r]) : AgentNode(r, reply)
        \/ \E out \in DbOutcomes \cup TableLists \cup SchemaTexts : ToolsNode(r, out)
        \/ query_gen_return(r)
        \/ \E q \in VetTexts \cup {None} : query_check(r, q)
        \/ query_execute_enter(r)
        \/ query_execute_return(r)
        \/ query_return(r)

Spec == Init /\ [][Next]_vars

\* The execution tool alone, with every argument built from at most MaxPieces
\* pieces: the request is inside query_execute and the model has just asked
\* for db_exec_tool.
Pieces ==
    {<<Tick>>, <<Tick, Tick>>, Fence, FenceSql, <<"s", "q", "l">>, <<"s">>,
     <<" ">>, <<"\n">>, <<VT>>, <<"Q">>}

RECURSIVE Concats(_)
Concats(n) ==
    IF n = 0 THEN {<<>>}
    ELSE LET prev == Concats(n - 1)
         IN prev \cup {p \o x : p \in Pieces, x \in prev}

StripInputs == Concats(MaxPieces)

InitStrip ==
    /\ env_api_key = TRUE
    /\ env_database_url = TRUE
    /\ app = "up"
    /\ list_tables_tool = TRUE
    /\ get_schema_tool = TRUE
    /\ inputs = ModuleInputs
    /\ pc = [r \in Requests |-> IF r \in MainRequests THEN "query_execute" ELSE "START"]
    /\ messages = [r \in Requests |->
          IF r \in MainRequests
          THEN <<HumanMessage(<<"?", "1">>, "none"),
                 HumanMessage(PlainSql, "supervisor"),
                 HumanMessage(PlainSql, "supervisor")>>
          ELSE <<>>]
    /\ final_output = [r \in Requests |-> IF r \in MainRequests THEN PlainSql ELSE <<>>]
    /\ response = [r \in Requests |-> NoResponse]
    /\ status = [r \in Requests |-> 0]
    /\ \E a \in StripInputs :
          agent = [r \in Requests |->
              IF r \in MainRequests
              THEN [node |-> "tools", rounds |-> 0, last |-> <<>>,
                    call |-> [tool |-> "db_exec_tool", args |-> a]]
              ELSE NoAgent]
    /\ llmCalls = [r \in Requests |-> IF r \in MainRequests THEN 3 ELSE 0]
    /\ asked = [r \in Requests |-> IF r \in MainRequests THEN <<"?", "1">> ELSE <<>>]
    /\ trace = [r \in Requests |->
          IF r \in MainRequests THEN <<"query_gen", "query_check">> ELSE <<>>]
    /\ toolLog = [r \in Requests |->
          IF r \in MainRequests
          THEN <<[node |-> "query_check", tool |-> "llm", arg |-> PlainSql,
                  sent |-> PlainSql, out |-> PlainSql]>>
          ELSE <<>>]

NextStrip ==
    \E r \in MainRequests :
        \/ ToolsNode(r, Rows)
        \/ AgentNode(r, Final(Answer))
        \/ query_execute_return(r)
        \/ query_return(r)

SpecStrip == InitStrip /\ [][NextStrip]_vars

\* Concurrent requests (the handler is a plain def, run in a thread pool);
\* the model and the database answer each request with texts that end in the
\* request's own digit.
ConcQuestion(r) == <<"?", Digit[r]>>
ConcSql(r) == <<"Q", Digit[r]>>
ConcAnswer(r) == <<"ans", Digit[r]>>
ConcReplies(r) ==
    IF pc[r] = "query_gen"
    THEN {Final(ConcSql(r)), ToolCall("sql_db_list_tables", <<>>)}
    ELSE {Final(ConcAnswer(r)), ToolCall("db_exec_tool", ConcSql(r))}

InitConc ==
    /\ env_api_key = TRUE
    /\ env_database_url = TRUE
    /\ app = "up"
    /\ list_tables_tool = TRUE
    /\ get_schema_tool = TRUE
    /\ InitRequests

NextConc ==
    \E r \in Requests :
        \/ query(r, ConcQuestion(r))
        \/ query_gen_enter(r)
        \/ \E reply \in ConcReplies(r) : AgentNode(r, reply)
        \/ \E out \in {Rows, <<"T">>} : ToolsNode(r, out)
        \/ query_gen_return(r)
        \/ \E q \in {ConcSql(r), None} : query_check(r, q)
        \/ query_execute_enter(r)
        \/ query_execute_return(r)
        \/ query_return(r)

SpecConc == InitConc /\ [][NextConc]_vars

----------------------------------------------------------------------------
(* Properties *)

Prefixes(s) == {SubSeq(s, 1, n) : n \in 0..Len(s)}
StageOrder == <<"query_gen", "query_check", "query_execute">>
ToolEntries(r, node) ==
    {i \in 1..Len(toolLog[r]) :
        toolLog[r][i].node = node /\ toolLog[r][i].tool # "llm"}
DbEntries(r) ==
    {i \in 1..Len(toolLog[r]) : toolLog[r][i].tool = "db_exec_tool"}

\* C1: the nodes run in the fixed order query_gen, query_check,
\* query_execute, END whatever the model and the database answer: the nodes
\* that have returned are always a prefix of that order (so none runs twice
\* and none runs again after a later one), the node that is running is the
\* next of the order, and END is entered only when all three have returned.
C1_FixedLinearOrder ==
    \A r \in Requests :
        /\ trace[r] \in Prefixes(StageOrder)
        /\ pc[r] = "START" => trace[r] = <<>>
        /\ pc[r] = "query_gen" => trace[r] = <<>>
        /\ pc[r] = "query_check" => trace[r] = <<"query_gen">>
        /\ pc[r] = "query_execute" => trace[r] = <<"query_gen", "query_check">>
        /\ pc[r] \in {"END", "returned"} => trace[r] = StageOrder
        /\ pc[r] \in {"START", "query_gen", "query_check", "query_execute",
                      "END", "returned", "raised"}

\* A request has returned although generation produced prose, not SQL, and an
\* execution failed (with an empty final text).
C1_Witness ==
    /\ pc[1] = "returned"
    /\ messages[1][2].content = Prose
    /\ messages[1][4].content = <<>>
    /\ \E i \in DbEntries(1) : toolLog[1][i].out = ErrorText

\* C2: the buffer holds the seed message plus exactly one message per node
\* that has returned, however many agent and tool rounds ran inside the
\* nodes; a request that reached END holds 1 + 3 messages.
C2_BufferMonotonicity ==
    \A r \in Requests :
        /\ pc[r] = "START" => messages[r] = <<>>
        /\ pc[r] # "START" => Len(messages[r]) = 1 + Len(trace[r])
        /\ pc[r] \in {"END", "returned"} => Len(messages[r]) = 4

\* A finished request whose two agents ran two tool rounds each.
C2_Witness ==
    /\ pc[1] = "END"
    /\ Len(messages[1]) = 4
    /\ Cardinality(ToolEntries(1, "query_gen")) = 2
    /\ Cardinality(ToolEntries(1, "query_execute")) = 2

\* C3: the response of a returned request is the content of the last buffer
\* message, the fourth, which query_execute appended, and it is not the
\* content of the message query_gen appended nor of the one query_check
\* appended (the intermediate SQL).
C3_ResponseIsExecuteMessage ==
    \A r \in Requests :
        pc[r] = "returned" =>
            /\ Len(messages[r]) = 4
            /\ trace[r] = StageOrder
            /\ response[r] = messages[r][4].content
            /\ response[r] # messages[r][2].content
            /\ response[r] # messages[r][3].content

NoFence(s) == \A i \in 1..(Len(s) - 2) : SubSeq(s, i, i + 2) # Fence

\* C6: every string handed to the database holds no three consecutive
\* backticks, whatever argument the model passed to db_exec_tool.
C6_NoFenceSubmitted ==
    \A r \in Requests :
        \A i \in DbEntries(r) : NoFence(toolLog[r][i].sent)

\* An argument where removing the sql fence joins backticks into a new fence.
C6_Witness ==
    \E i \in DbEntries(1) :
        /\ toolLog[1][i].arg = <<Tick>> \o FenceSql \o <<Tick, Tick>> \o <<"Q">>
        /\ toolLog[1][i].sent = <<"Q">>

HasRevisionSuggestion(text) == \E i \in 1..Len(text) : text[i] = "rewrite"

\* C7: when an execution returned an error, the request still returns with
\* status 200 and a non-empty response that holds a revision suggestion.
C7_ErrorTransparency ==
    \A r \in Requests :
        (pc[r] = "returned" /\ \E i \in DbEntries(r) : toolLog[r][i].out = ErrorText)
            => /\ status[r] = 200
               /\ response[r] # <<>>
               /\ HasRevisionSuggestion(response[r])

\* C8: with a schema tool missing, a request gets no further than the start
\* of query_gen: no model call, no message appended, no node returned, no
\* tool or database call, no response.
C8_ToolUnavailableFatal ==
    \A r \in Requests :
        ~(list_tables_tool /\ get_schema_tool) =>
            /\ pc[r] \in {"START", "query_gen", "raised"}
            /\ agent[r].node = "off"
            /\ llmCalls[r] = 0
            /\ Len(messages[r]) <= 1
            /\ trace[r] = <<>>
            /\ toolLog[r] = <<>>
            /\ response[r] = NoResponse
            /\ status[r] \in {0, 500}

\* The request was aborted because only the list-tables tool is missing.
C8_Witness ==
    /\ pc[1] = "raised"
    /\ status[1] = 500
    /\ ~list_tables_tool
    /\ get_schema_tool

Tagged(text, r) == text # <<>> /\ Last(text) = Digit[r]

\* C9: under every interleaving of the requests, a request's buffer starts
\* with its own question and otherwise holds only what its own nodes
\* appended, every text a node of the request read is the request's own, and
\* its response is the fourth message of its own buffer.
C9_RequestIsolation ==
    \A r \in Requests :
        pc[r] # "START" =>
            /\ asked[r] = ConcQuestion(r)
            /\ messages[r][1].content = asked[r]
            /\ Len(messages[r]) = 1 + Len(trace[r])
            /\ \A i \in 1..Len(messages[r]) :
                  Tagged(messages[r][i].content, r)
            /\ \A i \in 1..Len(toolLog[r]) :
                  \/ toolLog[r][i].arg = <<>>
                  \/ Tagged(toolLog[r][i].arg, r)
            /\ agent[r].node = "agent" /\ agent[r].rounds = 0 =>
                  agent[r].last = Last(messages[r]).content
            /\ pc[r] = "returned" => response[r] = messages[r][4].content

\* Two requests in flight at once: the first is inside query_check while the
\* execution agent of the second is about to run db_exec_tool.
C9_Witness ==
    /\ pc[1] = "query_check"
    /\ Len(messages[1]) = 2
    /\ pc[2] = "query_execute"
    /\ agent[2].node = "tools"
    /\ agent[2].call.args = ConcSql(2)

\* C10: every string query_execute hands to the database is the vetted query
\* (the third buffer message) with its code fences stripped.
C10_VerbatimExecution ==
    \A r \in Requests :
        \A i \in DbEntries(r) :
            toolLog[r][i].node = "query_execute"
                => toolLog[r][i].sent = db_exec_query(messages[r][3].content)

RECURSIVE NoSpace(_)
\* The text without its whitespace.
NoSpace(s) ==
    IF s = <<>> THEN <<>>
    ELSE IF Head(s) \in Whitespace THEN NoSpace(Tail(s))
    ELSE <<Head(s)>> \o NoSpace(Tail(s))

CorrectSql == {PlainSql, OtherSql}
CheckEntries(r) ==
    {i \in 1..Len(toolLog[r]) : toolLog[r][i].node = "query_check"}

\* C11: when the text query_check reads is correct SQL, the text it appends
\* equals that text up to whitespace.
C11_ValidateIdempotent ==
    \A r \in Requests :
        \A i \in CheckEntries(r) :
            (Len(trace[r]) >= 2 /\ toolLog[r][i].arg \in CorrectSql)
                => NoSpace(toolLog[r][i].out) = NoSpace(toolLog[r][i].arg)

\* C12: inside query_gen the first tool call is the list-tables tool, so
\* every get-schema call comes after a list-tables call.
C12_ListTablesFirst ==
    \A r \in Requests :
        \A i \in ToolEntries(r, "query_gen") :
            toolLog[r][i].tool = "sql_db_schema"
                => \E j \in ToolEntries(r, "query_gen") :
                      j < i /\ toolLog[r][j].tool = "sql_db_list_tables"

GenIsProse(r) == Len(messages[r]) >= 2 /\ messages[r][2].content = Prose

\* C13: a request whose query_gen message is not SQL is not aborted: it goes
\* on through query_check and query_execute and, once it has stopped, it has
\* returned a response with all three nodes run.
C13_NonSqlReachesTerminal ==
    \A r \in Requests :
        GenIsProse(r) =>
            /\ pc[r] # "raised"
            /\ status[r] # 500
            /\ pc[r] = "returned" =>
                  trace[r] = StageOrder /\ response[r] # NoResponse

\* C14: the module serves only when both the API key and the database URL
\* were present at import; with either missing the import fails and no
\* request is ever started.
C14_ConfigFailFast ==
    /\ app = "up" => env_api_key /\ env_database_url
    /\ ~(env_api_key /\ env_database_url) =>
          /\ app \in {"importing", "failed"}
          /\ \A r \in Requests :
                /\ pc[r] = "START"
                /\ messages[r] = <<>>
                /\ llmCalls[r] = 0
                /\ toolLog[r] = <<>>
                /\ response[r] = NoResponse

\* The import failed because only the database URL is missing.
C14_Witness ==
    /\ app = "failed"
    /\ env_api_key
    /\ ~env_database_url

\* C15: query_check calls the model exactly once and calls no tool: once it
\* has returned, the log holds one entry for it, a model call whose input is
\* the second buffer message (appended by query_gen) and whose query field is
\* the third buffer message, unchanged; before it runs the log holds none,
\* and when it raised the log holds its one model call and nothing was
\* appended.
C15_ValidateSingleCall ==
    \A r \in Requests :
        /\ (Len(trace[r]) < 2 /\ pc[r] # "raised") => CheckEntries(r) = {}
        /\ (Len(trace[r]) = 0 /\ pc[r] = "raised") => CheckEntries(r) = {}
        /\ (Len(trace[r]) = 1 /\ pc[r] = "raised") =>
              /\ Cardinality(CheckEntries(r)) = 1
              /\ Len(messages[r]) = 2
              /\ \A i \in CheckEntries(r) :
                    /\ toolLog[r][i].tool = "llm"
                    /\ toolLog[r][i].arg = messages[r][2].content
                    /\ toolLog[r][i].out = None
        /\ Len(trace[r]) >= 2 =>
              /\ Cardinality(CheckEntries(r)) = 1
              /\ \A i \in CheckEntries(r) :
                    /\ toolLog[r][i].tool = "llm"
                    /\ toolLog[r][i].arg = messages[r][2].content
                    /\ toolLog[r][i].out = messages[r][3].content
        /\ pc[r] = "query_check" => agent[r].node = "off"

\* query_check returned a fenced query for a plain one and appended it as is.
C15_Witness ==
    /\ pc[1] = "query_execute"
    /\ messages[1][2].content = PlainSql
    /\ messages[1][3].content = FencedSql
    /\ llmCalls[1] = 2

\* C16: in every step the buffer of a request either stays as it is or gets
\* exactly one message appended after the ones it held, which keep content
\* and order; it changes only in the step that starts the stream or in which
\* a node returns.
C16_AppendOnly ==
    [][\A r \in Requests :
          \/ messages'[r] = messages[r]
          \/ /\ Len(messages'[r]) = Len(messages[r]) + 1
             /\ SubSeq(messages'[r], 1, Len(messages[r])) = messages[r]
             /\ pc[r] = "START" \/ Len(trace'[r]) = Len(trace[r]) + 1]_vars

\* A finished buffer that still holds the question and both intermediate
\* texts in their places.
C16_Witness ==
    /\ pc[1] = "END"
    /\ messages[1][1].content = asked[1]
    /\ messages[1][2].content = FencedSql
    /\ messages[1][3].content = OtherSql
    /\ messages[1][4].content = Answer

\* C17: db_exec_tool runs only inside query_execute and the two schema tools
\* only inside query_gen, so every database execution comes after
\* query_check's entry in the log.
C17_CapabilityConfinement ==
    \A r \in Requests :
        \A i \in 1..Len(toolLog[r]) :
            /\ toolLog[r][i].tool = "db_exec_tool" =>
                  /\ toolLog[r][i].node = "query_execute"
                  /\ Len(trace[r]) >= 2
                  /\ \E j \in CheckEntries(r) : j < i
            /\ toolLog[r][i].tool \in {"sql_db_list_tables", "sql_db_schema"} =>
                  /\ toolLog[r][i].node = "query_gen"
                  /\ \A j \in CheckEntries(r) : i < j

\* Both schema tools ran in query_gen and the database was queried in
\* query_execute.
C17_Witness ==
    /\ Cardinality(ToolEntries(1, "query_gen")) = 2
    /\ DbEntries(1) # {}
    /\ pc[1] = "returned"

\* C18: a request that reached END has queried the database at least once.
C18_ExecuteBeforeAnswer ==
    \A r \in Requests :
        pc[r] \in {"END", "returned"} => DbEntries(r) # {}

====
